---- MODULE Spec2Model ----
(***************************************************************************)
(* Tool extensions of open-webui: the tools router (create, read, update,  *)
(* delete, configuration "valves" read and write with per-user personal    *)
(* copies of system tools), the tool loader, and the function module cache.*)
(*                                                                         *)
(* Strings that the code builds or tests character by character (tool ids, *)
(* user ids) are sequences of one-character strings.  Source texts are     *)
(* sequences of tokens.  A Python None is the record NULL (for dict-valued *)
(* columns) or the empty sequence None (for id-valued columns).            *)
(***************************************************************************)
EXTENDS Integers, Sequences, FiniteSets, TLC

VARIABLES
    store,          \* the "tool" table: id -> row
    TOOLS,          \* request.app.state.TOOLS: id -> loaded tool module
    now,            \* int(time.time())
    resp,           \* the last response of the tools router
    cfgWriters,     \* history: <<blueprint id, user id>> of successful valves writes on system tools
    functions,      \* the "function" table: id -> row
    FUNCTIONS,      \* request.app.state.FUNCTIONS: id -> loaded function module
    FUNCTION_CONTENTS, \* request.app.state.FUNCTION_CONTENTS: id -> source text
    call,           \* calls in flight: per caller its frame; the argument of a function applied on its own; a second worker
    nextInst,       \* number of module objects created so far (object identity)
    lastHit         \* history: the object the last completed cache lookup returned

routerVars == <<store, TOOLS, now, resp, cfgWriters>>
cacheVars == <<functions, FUNCTIONS, FUNCTION_CONTENTS, call, nextInst, lastHit>>
vars == <<store, TOOLS, now, resp, cfgWriters,
          functions, FUNCTIONS, FUNCTION_CONTENTS, call, nextInst, lastHit>>

----------------------------------------------------------------------------
(* Bounds *)

MaxTime == 1        \* the clock runs 0..MaxTime
MaxLoads == 3       \* module objects created in the function cache model
MaxTextLen == 6     \* characters of a source text given to the frontmatter parser
MaxWords == 4       \* words of a source text given to the import rewriting

----------------------------------------------------------------------------
(* Values *)

None == <<>>
NULL == [null |-> TRUE]
EmptyDict == [k \in {} |-> ""]

\* Principals: two ordinary users and one administrator.
Alice == [id |-> <<"a">>, role |-> "user"]
Bob == [id |-> <<"b">>, role |-> "user"]
Root == [id |-> <<"r">>, role |-> "admin"]
Principals == {Alice, Bob, Root}

\* Users holding the "workspace.tools" permission.
WorkspaceToolsUsers == {Bob.id}

\* Groups of a user.
GroupsOf(uid) == IF uid = Alice.id THEN {"g"} ELSE {}

\* f"{id}_user_{user.id}"
PersonalCopyId(id, uid) == id \o <<"_", "u", "s", "e", "r", "_">> \o uid

W == <<"w">>
T == <<"t">>

\* str.isidentifier() and str.lower() over the characters the model uses.
LowerLetters == {"a", "b", "e", "r", "s", "t", "u", "w"}
UpperLetters == {"T"}
IsIdentifier(s) ==
    /\ Len(s) > 0
    /\ s[1] \in LowerLetters \cup UpperLetters \cup {"_"}
    /\ \A i \in 1..Len(s) : s[i] \in LowerLetters \cup UpperLetters \cup {"_", "0"}
LowerChar(c) == IF c = "T" THEN "t" ELSE c
Lower(s) == [i \in 1..Len(s) |-> LowerChar(s[i])]

----------------------------------------------------------------------------
(* Source texts: sequences of tokens *)

LegacyImports == {"from utils", "from apps", "from main", "from config"}
CanonToken(tok) ==
    CASE tok = "from utils" -> "from open_webui.utils"
      [] tok = "from apps" -> "from open_webui.apps"
      [] tok = "from main" -> "from open_webui.main"
      [] tok = "from config" -> "from open_webui.config"
      [] OTHER -> tok

replace_imports(content) == [i \in 1..Len(content) |-> CanonToken(content[i])]

Tokens(content) == {content[i] : i \in 1..Len(content)}

\* Source texts word by word, for the import rewriting: "from " is the
\* keyword with its blank, the others are what may follow it.
ImportWords == {"from ", "utils", "apps", "main", "config", "open_webui."}

\* A table whose new texts still hold the old ones.
Replacements_Nested ==
    << [old |-> <<"from ", "utils">>, new |-> <<"open_webui.", "from ", "utils">>],
       [old |-> <<"from ", "apps">>, new |-> <<"open_webui.", "from ", "apps">>],
       [old |-> <<"from ", "main">>, new |-> <<"open_webui.", "from ", "main">>],
       [old |-> <<"from ", "config">>, new |-> <<"open_webui.", "from ", "config">>] >>

\* The replacements table of replace_imports, in its order.
Replacements ==
    << [old |-> <<"from ", "utils">>, new |-> <<"from ", "open_webui.", "utils">>],
       [old |-> <<"from ", "apps">>, new |-> <<"from ", "open_webui.", "apps">>],
       [old |-> <<"from ", "main">>, new |-> <<"from ", "open_webui.", "main">>],
       [old |-> <<"from ", "config">>, new |-> <<"from ", "open_webui.", "config">>] >>

\* s.replace(old, new): every occurrence of old, left to right, none
\* overlapping another.
RECURSIVE StrReplace(_, _, _)
StrReplace(s, old, new) ==
    IF Len(s) < Len(old) THEN s
    ELSE IF SubSeq(s, 1, Len(old)) = old
        THEN new \o StrReplace(SubSeq(s, Len(old) + 1, Len(s)), old, new)
        ELSE <<s[1]>> \o StrReplace(Tail(s), old, new)

\* for old, new in replacements.items(): content = content.replace(old, new)
RECURSIVE ReplaceEach(_, _)
ReplaceEach(text, table) ==
    IF Len(table) = 0 THEN text
    ELSE ReplaceEach(StrReplace(text, table[1].old, table[1].new), Tail(table))

\* replace_imports on a text of words.
replace_imports_text(text) == ReplaceEach(text, Replacements)

SrcOk == <<"class Tools", "def run", "class Valves">>
SrcLegacy == <<"from utils", "class Tools", "class Valves">>
SrcNoValves == <<"class Tools", "def run">>
SrcNoTools == <<"class Valves">>
SrcFault == <<"raise">>

\* exec(content, module.__dict__): raises, or leaves the namespace.
ExecRaises(content) == "raise" \in Tokens(content)
HasToolsClass(content) == "class Tools" \in Tokens(content)

\* The frontmatter block is the first token when it is a docstring token.
DocReq == "\"\"\"requirements: foo\"\"\""
DocReqTwo == "\"\"\"requirements: foo, bar\"\"\""
extract_frontmatter(content) ==
    IF Len(content) > 0 /\ content[1] = DocReq
        THEN [requirements |-> "foo"]
    ELSE IF Len(content) > 0 /\ content[1] = DocReqTwo
        THEN [requirements |-> "foo, bar"]
        ELSE EmptyDict

\* {dep.strip() for dep in requirements.split(',')} of the requirements
\* strings above.
RequirementNames(requirements) ==
    IF requirements = "foo" THEN {"foo"}
    ELSE IF requirements = "foo, bar" THEN {"foo", "bar"}
    ELSE {}

\* frontmatter.get("requirements") split into names; nothing without the key.
Dependencies(frontmatter) ==
    IF "requirements" \in DOMAIN frontmatter
        THEN RequirementNames(frontmatter.requirements)
        ELSE {}

\* Source texts character by character, for the frontmatter parser.  QQQ is
\* the triple-quote delimiter, NL the line break.
QQQ == "\"\"\""
NL == "\n"
TextChars == {QQQ, NL, ":", "K", " "}
Whitespace == {" ", NL}
NoText == <<"None">>

\* The first position of ch in s at or after position from; 0 when there is none.
Find(s, ch, from) ==
    IF \E i \in from..Len(s) : s[i] = ch
        THEN CHOOSE i \in from..Len(s) : s[i] = ch /\ \A j \in from..(i - 1) : s[j] # ch
        ELSE 0

\* s.split(ch)
RECURSIVE Split(_, _)
Split(s, ch) ==
    LET i == Find(s, ch, 1) IN
    IF i = 0 THEN <<s>>
    ELSE <<SubSeq(s, 1, i - 1)>> \o Split(SubSeq(s, i + 1, Len(s)), ch)

\* s.strip()
RECURSIVE Strip(_)
Strip(s) ==
    IF Len(s) = 0 THEN s
    ELSE IF s[1] \in Whitespace THEN Strip(Tail(s))
    ELSE IF s[Len(s)] \in Whitespace THEN Strip(SubSeq(s, 1, Len(s) - 1))
    ELSE s

\* s.lower()
LowerText(s) == [i \in 1..Len(s) |-> IF s[i] = "K" THEN "k" ELSE s[i]]

\* A parser that looks for the delimiter anywhere in the text.
HasLeadingDelimiter_Anywhere(text) == Find(text, QQQ, 1) # 0

\* '"""' in content.split('\n', 1)[0]
HasLeadingDelimiter(text) == Find(Split(text, NL)[1], QQQ, 1) # 0

\* re.search(r'"""(.*?)"""', content, re.DOTALL): the text between the first
\* delimiter and the next one; NoText when there is no match.
FirstDocstring(text) ==
    LET open == Find(text, QQQ, 1)
        close == IF open = 0 THEN 0 ELSE Find(text, QQQ, open + 1)
    IN  IF close = 0 THEN NoText ELSE SubSeq(text, open + 1, close - 1)

\* key, value = line.split(':', 1); key.strip().lower() and value.strip()
LineKey(line) == LowerText(Strip(SubSeq(line, 1, Find(line, ":", 1) - 1)))
LineValue(line) == Strip(SubSeq(line, Find(line, ":", 1) + 1, Len(line)))

\* A loop that keeps the first value it met for a key.
FrontmatterOfLines_FirstWins(lines) ==
    LET withColon == SelectSeq(lines, LAMBDA line : Find(line, ":", 1) # 0)
        first(k) == CHOOSE i \in 1..Len(withColon) :
                       /\ LineKey(withColon[i]) = k
                       /\ \A j \in 1..(i - 1) : LineKey(withColon[j]) # k
    IN  [k \in {LineKey(withColon[i]) : i \in 1..Len(withColon)} |->
            LineValue(withColon[first(k)])]

\* The for loop over the lines of the block: key and value of every line
\* with a colon; a later line overwrites an earlier one of the same key.
FrontmatterOfLines(lines) ==
    LET withColon == SelectSeq(lines, LAMBDA line : Find(line, ":", 1) # 0)
        last(k) == CHOOSE i \in 1..Len(withColon) :
                      /\ LineKey(withColon[i]) = k
                      /\ \A j \in (i + 1)..Len(withColon) : LineKey(withColon[j]) # k
    IN  [k \in {LineKey(withColon[i]) : i \in 1..Len(withColon)} |->
            LineValue(withColon[last(k)])]

\* extract_frontmatter on a text: what the call raises and what it returns.
\* The test of the first line is outside the try block; what follows it is
\* inside, and nothing in it raises on a str.
extract_frontmatter_text(text) ==
    IF text = NoText
        THEN [raises |-> TRUE, map |-> EmptyDict]
    ELSE IF ~HasLeadingDelimiter(text)
        THEN [raises |-> FALSE, map |-> EmptyDict]
    ELSE IF FirstDocstring(text) = NoText
        THEN [raises |-> FALSE, map |-> EmptyDict]
    ELSE [raises |-> FALSE,
          map |-> FrontmatterOfLines(Split(Strip(FirstDocstring(text)), NL))]

\* The module object a successful load returns, named by the text it ran.
Module(content) == [src |-> content]
HasValves(module) == "class Valves" \in Tokens(module.src)

\* get_tool_specs(module): one descriptor per method of the Tools class.
get_tool_specs(module) == SelectSeq(module.src, LAMBDA tok : tok = "def run")

----------------------------------------------------------------------------
(* Configuration ("valves") values and the schema a tool source declares *)

\* Values of a form field: Python None, an int, or a str.
PyNone == "None"
IntOne == "int:1"
IsStr(v) == v \notin {PyNone, IntOne}

\* class Valves(BaseModel): unit: str = "k"
ValvesDefault == [unit |-> "k"]
ValvesSchema == [unit |-> "str"]

\* {k: v for k, v in form_data.items() if v is not None}
DropNone(form) == [k \in {j \in DOMAIN form : form[j] # PyNone} |-> form[k]]

\* Valves(**kwargs): a field of the wrong type raises ValidationError.
ValvesAccepts(kwargs) ==
    \A k \in DOMAIN kwargs \cap DOMAIN ValvesSchema : IsStr(kwargs[k])

\* Valves(**kwargs).model_dump(): declared fields only, defaults filled in.
ValvesDump(kwargs) ==
    [k \in DOMAIN ValvesSchema |-> IF k \in DOMAIN kwargs THEN kwargs[k] ELSE ValvesDefault[k]]

----------------------------------------------------------------------------
(* Access control *)

PrivateAC == [read |-> [group_ids |-> {}, user_ids |-> {}],
              write |-> [group_ids |-> {}, user_ids |-> {}]]
GrantAliceAC == [read |-> [group_ids |-> {}, user_ids |-> {Alice.id}],
                 write |-> [group_ids |-> {"g"}, user_ids |-> {}]]

\* has_access(user_id, type, access_control)
has_access(uid, type, ac) ==
    IF ac = NULL
        THEN type = "read"
        ELSE \/ uid \in ac[type].user_ids
             \/ GroupsOf(uid) \cap ac[type].group_ids # {}

\* has_permission(user.id, "workspace.tools", USER_PERMISSIONS)
has_permission(uid) == uid \in WorkspaceToolsUsers

----------------------------------------------------------------------------
(* The record store: ToolsTable *)

Put(f, k, v) == [i \in DOMAIN f \cup {k} |-> IF i = k THEN v ELSE f[i]]
Drop(f, k) == [i \in DOMAIN f \ {k} |-> f[i]]

\* ToolMeta(**meta): a model object with the declared fields, not a dict.
ToolMeta(meta) ==
    [pydantic |-> "ToolMeta",
     description |-> IF "description" \in DOMAIN meta THEN meta.description ELSE PyNone,
     manifest |-> IF "manifest" \in DOMAIN meta THEN meta.manifest ELSE EmptyDict]

\* x supports ** unpacking (has keys()).
IsMapping(x) == "pydantic" \notin DOMAIN x

\* ToolsTable.insert_new_tool: the valves column is left NULL.
insert_new_tool(st, user_id, form, id, specs, t) ==
    Put(st, id,
        [user_id |-> user_id,
         name |-> form.name,
         content |-> form.content,
         specs |-> specs,
         meta |-> form.meta,
         valves |-> NULL,
         access_control |-> form.access_control,
         updated_at |-> t,
         created_at |-> t])

\* ToolsTable.get_tool_by_id: the row as a ToolModel (no valves field), or NULL.
get_tool_by_id(st, id) ==
    IF id \notin DOMAIN st
        THEN NULL
        ELSE [id |-> id,
              user_id |-> st[id].user_id,
              name |-> st[id].name,
              content |-> st[id].content,
              specs |-> st[id].specs,
              meta |-> ToolMeta(st[id].meta),
              access_control |-> st[id].access_control,
              updated_at |-> st[id].updated_at,
              created_at |-> st[id].created_at]

\* An UPDATE that stamps created_at as well.
update_tool_by_id_Restamps(st, id, updated, t) ==
    IF id \notin DOMAIN st
        THEN st
        ELSE [st EXCEPT ![id] =
                [f \in DOMAIN st[id] |->
                    IF f \in {"updated_at", "created_at"} THEN t
                    ELSE IF f \in DOMAIN updated THEN updated[f]
                    ELSE st[id][f]]]

\* ToolsTable.update_tool_by_id: UPDATE ... SET {**updated, "updated_at": now}.
update_tool_by_id(st, id, updated, t) ==
    IF id \notin DOMAIN st
        THEN st
        ELSE [st EXCEPT ![id] =
                [f \in DOMAIN st[id] |->
                    IF f = "updated_at" THEN t
                    ELSE IF f \in DOMAIN updated THEN updated[f]
                    ELSE st[id][f]]]

\* ToolsTable.delete_tool_by_id
delete_tool_by_id(st, id) == Drop(st, id)

----------------------------------------------------------------------------
(* The loader *)

\* Source files under TOOLS_DIR, by file name: one file, x.py.
ToolFiles == [n \in {<<"x">>} |-> <<DocReq, "class Tools", "def run">>]
CustomPrefix == <<"c", "u", "s", "t", "o", "m", "_">>
StartsWith(s, p) == Len(s) >= Len(p) /\ SubSeq(s, 1, Len(p)) = p

\* install_frontmatter_requirements: pip runs only for a non-empty list.
InstallSucceeds(frontmatter, env) ==
    \/ "requirements" \notin DOMAIN frontmatter
    \/ env.pip

\* exec(content, module.__dict__) and the Tools lookup that follows it.
ExecSucceeds(content) == ~ExecRaises(content) /\ HasToolsClass(content)

\* A loader that runs the source before it installs what the source needs.
OverrideEvents_ExecFirst(frontmatter, env) == <<"exec", "install">>

\* What a load with a source override does, in order: the call of
\* install_frontmatter_requirements, pip when requirements are declared,
\* and exec(content) when pip did not fail.
OverrideEvents(frontmatter, env) ==
    <<"install">>
    \o (IF "requirements" \in DOMAIN frontmatter THEN <<"pip">> ELSE <<>>)
    \o (IF InstallSucceeds(frontmatter, env) THEN <<"exec">> ELSE <<>>)

\* load_tool_module_by_id(tool_id, content): content = None reads the row,
\* rewrites its imports and writes the row back before running it.
\* The result names the store the call leaves behind and what the call ran.
load_tool_module_by_id(st, tool_id, content, t, env) ==
    IF StartsWith(tool_id, CustomPrefix)
    THEN LET name == SubSeq(tool_id, Len(CustomPrefix) + 1, Len(tool_id)) IN
         IF name \notin DOMAIN ToolFiles
         THEN [ok |-> FALSE, module |-> NULL, frontmatter |-> EmptyDict, store |-> st,
               events |-> <<>>]
         ELSE [ok |-> ExecSucceeds(ToolFiles[name]),
               module |-> Module(ToolFiles[name]),
               frontmatter |-> extract_frontmatter(ToolFiles[name]),
               store |-> st,
               events |-> <<"exec_file">>]
    ELSE IF content = None
    THEN IF tool_id \notin DOMAIN st
         THEN [ok |-> FALSE, module |-> NULL, frontmatter |-> EmptyDict, store |-> st,
               events |-> <<>>]
         ELSE LET text == replace_imports(st[tool_id].content)
                  st1 == IF env.db
                            THEN update_tool_by_id(st, tool_id, [content |-> text], t)
                            ELSE st
              IN [ok |-> ExecSucceeds(text),
                  module |-> Module(text),
                  frontmatter |-> extract_frontmatter(text),
                  store |-> st1,
                  events |-> <<"exec">>]
    ELSE [ok |-> InstallSucceeds(extract_frontmatter(content), env) /\ ExecSucceeds(content),
          module |-> Module(content),
          frontmatter |-> extract_frontmatter(content),
          store |-> st,
          events |-> OverrideEvents(extract_frontmatter(content), env)]

----------------------------------------------------------------------------
(* Requests of the tools router.  Each handler is a coroutine without an    *)
(* await between its first read and its last write, so it is one step.     *)

\* What fails in the environment during a request: a store write, pip.
EnvOk == [db |-> TRUE, pip |-> TRUE]
EnvDbDown == [db |-> FALSE, pip |-> TRUE]
EnvPipDown == [db |-> TRUE, pip |-> FALSE]
Envs == {EnvOk, EnvDbDown}

FormMeta == [description |-> "d", manifest |-> EmptyDict]
Form(id, content, ac) ==
    [id |-> id, name |-> "n1", content |-> content, meta |-> FormMeta, access_control |-> ac]

Respond(op, status) == resp' = [op |-> op, status |-> status]

\* POST /create
create_new_tools(u, form, env) ==
    LET id == Lower(form.id)
        content == replace_imports(form.content)
        loaded == load_tool_module_by_id(store, id, content, now, env)
        dumped == [form EXCEPT !.id = id, !.content = content,
                               !.meta = [form.meta EXCEPT !.manifest = loaded.frontmatter]]
    IN
    /\ UNCHANGED <<now, cfgWriters, cacheVars>>
    /\ IF u.role # "admin" /\ ~has_permission(u.id)
       THEN Respond("create", 401) /\ UNCHANGED <<store, TOOLS>>
       ELSE IF ~IsIdentifier(form.id)
       THEN Respond("create", 400) /\ UNCHANGED <<store, TOOLS>>
       ELSE IF get_tool_by_id(store, id) # NULL
       THEN Respond("create", 400) /\ UNCHANGED <<store, TOOLS>>
       ELSE IF ~loaded.ok
       THEN Respond("create", 400) /\ UNCHANGED <<store, TOOLS>>
       ELSE /\ TOOLS' = Put(TOOLS, id, loaded.module)
            /\ IF env.db
               THEN /\ store' = insert_new_tool(store, u.id, dumped, id,
                                                get_tool_specs(loaded.module), now)
                    /\ Respond("create", 200)
               ELSE /\ UNCHANGED store
                    /\ Respond("create", 400)

\* GET /id/{id}
get_tools_by_id(u, id) ==
    LET tool == get_tool_by_id(store, id) IN
    /\ UNCHANGED <<store, TOOLS, now, cfgWriters, cacheVars>>
    /\ IF tool = NULL
       THEN Respond("get", 404)
       ELSE IF \/ u.role = "admin"
               \/ tool.user_id = u.id
               \/ tool.user_id = None
               \/ has_access(u.id, "read", tool.access_control)
       THEN Respond("get", 200)
       ELSE Respond("get", 401)

\* The permission check of update_tools_by_id.
UpdateAllowed(u, tool) ==
    ~ /\ tool.user_id # None
      /\ tool.user_id # u.id
      /\ ~has_access(u.id, "write", tool.access_control)
      /\ u.role # "admin"

\* A handler that treats a system tool like any other tool.
ProtectsDefinition_Never(tool) == FALSE

\* "If it's a system tool, protect its core definition."
ProtectsDefinition(tool) == tool.user_id = None

\* POST /id/{id}/update
update_tools_by_id(u, id, form, env) ==
    LET tool == get_tool_by_id(store, id)
        content == replace_imports(form.content)
        loaded == load_tool_module_by_id(store, id, content, now, env)
        updated_data == [name |-> form.name,
                         content |-> form.content,
                         meta |-> [form.meta EXCEPT !.manifest = loaded.frontmatter],
                         access_control |-> form.access_control,
                         specs |-> get_tool_specs(loaded.module)]
    IN
    /\ UNCHANGED <<now, cfgWriters, cacheVars>>
    /\ IF tool = NULL
       THEN Respond("update", 404) /\ UNCHANGED <<store, TOOLS>>
       ELSE IF ~UpdateAllowed(u, tool)
       THEN Respond("update", 401) /\ UNCHANGED <<store, TOOLS>>
       ELSE IF ProtectsDefinition(tool)
       THEN \* {**tool.meta, **updated_data["meta"]} needs a mapping
            IF ~IsMapping(tool.meta)
            THEN Respond("update", 400) /\ UNCHANGED <<store, TOOLS>>
            ELSE /\ UNCHANGED TOOLS
                 /\ IF env.db
                    THEN /\ store' = update_tool_by_id(store, id,
                                        [name |-> form.name,
                                         meta |-> [k \in DOMAIN tool.meta \cup DOMAIN form.meta |->
                                                     IF k \in DOMAIN form.meta
                                                     THEN form.meta[k] ELSE tool.meta[k]]],
                                        now)
                         /\ Respond("update", 200)
                    ELSE UNCHANGED store /\ Respond("update", 400)
       ELSE IF ~loaded.ok
       THEN Respond("update", 400) /\ UNCHANGED <<store, TOOLS>>
       ELSE /\ TOOLS' = Put(TOOLS, id, loaded.module)
            /\ IF env.db
               THEN /\ store' = update_tool_by_id(store, id, updated_data, now)
                    /\ Respond("update", 200)
               ELSE UNCHANGED store /\ Respond("update", 400)

\* The permission check of delete_tools_by_id.
DeleteAllowed(u, tool) ==
    ~ /\ tool.user_id # u.id
      /\ ~has_access(u.id, "write", tool.access_control)
      /\ u.role # "admin"

\* DELETE /id/{id}/delete
delete_tools_by_id(u, id, env) ==
    LET tool == get_tool_by_id(store, id) IN
    /\ UNCHANGED <<now, cfgWriters, cacheVars>>
    /\ IF tool = NULL
       THEN Respond("delete", 404) /\ UNCHANGED <<store, TOOLS>>
       ELSE IF ~DeleteAllowed(u, tool)
       THEN Respond("delete", 401) /\ UNCHANGED <<store, TOOLS>>
       ELSE IF env.db
       THEN /\ store' = delete_tool_by_id(store, id)
            /\ TOOLS' = Drop(TOOLS, id)
            /\ Respond("delete", 200)
       ELSE /\ UNCHANGED <<store, TOOLS>>
            /\ Respond("delete", 200)

\* What GET /id/{id}/valves answers in store st: the caller's personal copy
\* (looked up by id and owner) first, then the tool itself.
ValvesRead(st, u, id) ==
    LET personal_copy_id == PersonalCopyId(id, u.id) IN
    IF personal_copy_id \in DOMAIN st /\ st[personal_copy_id].user_id = u.id
    THEN [status |-> 200, body |-> st[personal_copy_id].valves]
    ELSE IF id \notin DOMAIN st
    THEN [status |-> 404, body |-> NULL]
    ELSE IF st[id].user_id # None /\ st[id].user_id # u.id /\ u.role # "admin"
    THEN [status |-> 401, body |-> NULL]
    ELSE [status |-> 200, body |-> st[id].valves]

\* A read handler that forks the system tool for the reader.
get_tools_valves_by_id_Forks(u, id) ==
    /\ UNCHANGED <<TOOLS, now, cfgWriters, cacheVars>>
    /\ store' = IF id \in DOMAIN store /\ store[id].user_id = None
                THEN [i \in DOMAIN store \cup {PersonalCopyId(id, u.id)} |->
                        IF i = PersonalCopyId(id, u.id)
                        THEN [store[id] EXCEPT !.user_id = u.id]
                        ELSE store[i]]
                ELSE store
    /\ Respond("valves", ValvesRead(store, u, id).status)

\* GET /id/{id}/valves
get_tools_valves_by_id(u, id) ==
    /\ UNCHANGED <<store, TOOLS, now, cfgWriters, cacheVars>>
    /\ Respond("valves", ValvesRead(store, u, id).status)

\* GET /id/{id}/valves/spec
get_tools_valves_spec_by_id(u, id, env) ==
    LET tool == get_tool_by_id(store, id)
        loaded == load_tool_module_by_id(store, id, None, now, env)
        tools_module == IF id \in DOMAIN TOOLS THEN TOOLS[id] ELSE loaded.module
    IN
    /\ UNCHANGED <<now, cfgWriters, cacheVars>>
    /\ IF tool = NULL
       THEN Respond("valves_spec", 404) /\ UNCHANGED <<store, TOOLS>>
       ELSE IF u.role # "admin" /\ tool.user_id # None /\ tool.user_id # u.id
       THEN Respond("valves_spec", 401) /\ UNCHANGED <<store, TOOLS>>
       ELSE IF id \in DOMAIN TOOLS
       THEN /\ UNCHANGED <<store, TOOLS>>
            /\ Respond("valves_spec", 200)
       ELSE IF ~loaded.ok
       THEN /\ store' = loaded.store
            /\ UNCHANGED TOOLS
            /\ Respond("valves_spec", 500)
       ELSE /\ store' = loaded.store
            /\ TOOLS' = Put(TOOLS, id, tools_module)
            /\ Respond("valves_spec", 200)

\* A handler that writes the valves to a personal copy whatever the tool.
ValvesTargetId_Copy(id, uid, isSystem) == PersonalCopyId(id, uid)

\* A handler that writes the valves to the requested row itself.
ValvesTargetId_Requested(id, uid, isSystem) == id

\* The row a valves write on tool id by user uid goes to: the personal copy
\* of a system tool, the tool itself otherwise.
ValvesTargetId(id, uid, isSystem) ==
    IF isSystem THEN PersonalCopyId(id, uid) ELSE id

\* Tool(id=personal_copy_id, user_id=user.id, ...): the new personal copy.
NewPersonalCopy(blueprint, id, uid, form, t) ==
    [user_id |-> uid,
     name |-> blueprint.name,
     content |-> blueprint.content,
     specs |-> blueprint.specs,
     meta |-> [k \in {"parent_tool_id"} \cup DOMAIN blueprint.meta |->
                 IF k \in DOMAIN blueprint.meta THEN blueprint.meta[k] ELSE id],
     valves |-> form,
     access_control |-> NULL,
     updated_at |-> t,
     created_at |-> t]

\* A handler whose failure path keeps what the session staged.
Rollback_KeepsStaged(committed, staged) == staged

\* db.rollback(): what the session staged is dropped, what other sessions
\* committed stays.
Rollback(committed, staged) == committed

\* POST /id/{id}/valves/update
update_tools_valves_by_id(u, id, form, env) ==
    LET isSystem == id \in DOMAIN store /\ store[id].user_id = None
        isOwn == id \in DOMAIN store /\ store[id].user_id = u.id
        target == ValvesTargetId(id, u.id, isSystem)
        isNew == isSystem /\ target \notin DOMAIN store
        cached == id \in DOMAIN TOOLS
        loaded == load_tool_module_by_id(store, id, None, now, env)
        tools_module == IF cached THEN TOOLS[id] ELSE loaded.module
        committed == IF cached THEN store ELSE loaded.store
        staged == IF isNew
                  THEN Put(committed, target, NewPersonalCopy(store[id], id, u.id, form, now))
                  ELSE committed
        validated_valves == ValvesDump(DropNone(form))
        written == [staged EXCEPT ![target].valves = validated_valves,
                                  ![target].updated_at = now]
    IN
    /\ UNCHANGED <<now, cacheVars>>
    /\ IF ~isSystem /\ ~isOwn
       THEN /\ Respond("valves_update", 400)
            /\ store' = Rollback(store, store)
            /\ UNCHANGED <<TOOLS, cfgWriters>>
       ELSE IF ~cached /\ ~loaded.ok
       THEN /\ Respond("valves_update", 400)
            /\ store' = Rollback(committed, staged)
            /\ UNCHANGED <<TOOLS, cfgWriters>>
       ELSE /\ TOOLS' = Put(TOOLS, id, tools_module)
            /\ IF /\ HasValves(tools_module)
                  /\ ValvesAccepts(DropNone(form))
                  /\ env.db
               THEN /\ store' = written
                    /\ cfgWriters' = IF isSystem THEN cfgWriters \cup {<<id, u.id>>}
                                                 ELSE cfgWriters
                    /\ Respond("valves_update", 200)
               ELSE /\ store' = Rollback(committed, staged)
                    /\ UNCHANGED cfgWriters
                    /\ Respond("valves_update", 400)

\* What a list endpoint returns of a row: the fields of ToolUserResponse
\* that the list is filtered and ordered by.
ToolEntry(st, id) ==
    [id |-> id,
     user_id |-> st[id].user_id,
     access_control |-> st[id].access_control,
     updated_at |-> st[id].updated_at]

\* A query without its order_by clause: the rows in any order.
OrderByNothing(st, ids) ==
    {order \in [1..Cardinality(ids) -> ids] :
        \A i, j \in 1..Cardinality(ids) : i < j => order[i] # order[j]}

\* db.query(Tool).order_by(Tool.updated_at.desc()).all(): the orders of the
\* rows ids the database may answer with; rows of equal updated_at come in
\* any order.
OrderByUpdatedAtDesc(st, ids) ==
    {order \in [1..Cardinality(ids) -> ids] :
        \A i, j \in 1..Cardinality(ids) :
            i < j => /\ order[i] # order[j]
                     /\ st[order[i]].updated_at >= st[order[j]].updated_at}

Entries(st, order) == [i \in 1..Len(order) |-> ToolEntry(st, order[i])]

\* ToolsTable.get_tools
Tools_get_tools(st, order) == Entries(st, order)

\* ToolsTable.get_system_tools: the loop body calls a method the class does
\* not have, so the call raises as soon as one row has user_id NULL.
Tools_get_system_tools(st) ==
    IF \E id \in DOMAIN st : st[id].user_id = None
        THEN [ok |-> FALSE, list |-> <<>>]
        ELSE [ok |-> TRUE, list |-> <<>>]

\* ToolsTable.get_tools_by_user_id
Tools_get_tools_by_user_id(st, user_id, permission, order) ==
    LET accessible_tools ==
            SelectSeq(order, LAMBDA id :
                \/ st[id].user_id = user_id
                \/ has_access(user_id, permission, st[id].access_control))
        system_tools == Tools_get_system_tools(st)
    IN  [ok |-> system_tools.ok,
         list |-> Entries(st, accessible_tools) \o system_tools.list]

\* request.app.state.TOOL_SERVERS: the indices of the connected tool servers.
ToolServers == {<<>>, <<"0">>}
ServerEntry(idx, t) ==
    [id |-> <<"server:", idx>>,
     user_id |-> <<"server:", idx>>,
     access_control |-> NULL,
     updated_at |-> t]

\* GET /
get_tools(u, servers, order) ==
    LET tools == Tools_get_tools(store, order)
                     \o [i \in 1..Len(servers) |-> ServerEntry(servers[i], now)]
        visible == IF u.role # "admin"
                   THEN SelectSeq(tools, LAMBDA tool :
                            \/ tool.user_id = u.id
                            \/ tool.user_id = None
                            \/ has_access(u.id, "read", tool.access_control))
                   ELSE tools
    IN
    /\ order \in OrderByUpdatedAtDesc(store, DOMAIN store)
    /\ UNCHANGED <<store, TOOLS, now, cfgWriters, cacheVars>>
    /\ resp' = [op |-> "list", status |-> 200, body |-> visible]

\* GET /list
get_tool_list(u, order) ==
    LET tools == IF u.role = "admin"
                 THEN [ok |-> TRUE, list |-> Tools_get_tools(store, order)]
                 ELSE Tools_get_tools_by_user_id(store, u.id, "write", order)
    IN
    /\ order \in OrderByUpdatedAtDesc(store, DOMAIN store)
    /\ UNCHANGED <<store, TOOLS, now, cfgWriters, cacheVars>>
    /\ IF tools.ok
       THEN resp' = [op |-> "list_writable", status |-> 200, body |-> tools.list]
       ELSE Respond("list_writable", 500)

\* time.time() moves on.
Tick ==
    /\ now < MaxTime
    /\ now' = now + 1
    /\ UNCHANGED <<store, TOOLS, resp, cfgWriters, cacheVars>>

----------------------------------------------------------------------------
(* Initial states *)

\* A system tool: a row whose user_id is NULL.
Blueprint(content, ac) ==
    [user_id |-> None,
     name |-> "w0",
     content |-> content,
     specs |-> get_tool_specs(Module(content)),
     meta |-> [description |-> "d", manifest |-> extract_frontmatter(content)],
     valves |-> EmptyDict,
     access_control |-> ac,
     updated_at |-> 0,
     created_at |-> 0]

CacheIdle ==
    /\ functions = EmptyDict
    /\ FUNCTIONS = EmptyDict
    /\ FUNCTION_CONTENTS = EmptyDict
    /\ call = EmptyDict
    /\ nextInst = 0
    /\ lastHit = NULL

\* The process starts with one system tool in the table and nothing loaded.
RouterInit(sources, acs) ==
    /\ \E content \in sources, ac \in acs :
          store = [i \in {W} |-> Blueprint(content, ac)]
    /\ TOOLS = EmptyDict
    /\ now = 0
    /\ resp = [op |-> "none", status |-> 0]
    /\ cfgWriters = {}

----------------------------------------------------------------------------
(* Spec: records and access control.  One system tool w and one user tool  *)
(* t; every principal reads, updates and deletes both.                     *)

ToolForms == {Form(T, SrcOk, NULL),
              Form(<<"T">>, SrcLegacy, GrantAliceAC),
              Form(T, SrcOk, PrivateAC),
              Form(<<"t", "-">>, SrcOk, NULL),
              Form(T, SrcFault, NULL),
              Form(T, SrcNoTools, NULL)}
ValveForms == {[unit |-> "f"], [unit |-> PyNone, zzz |-> "x"], [unit |-> IntOne]}
RequestIds == {W, T}

Init ==
    /\ RouterInit({SrcNoValves}, {NULL, GrantAliceAC})
    /\ CacheIdle

Next ==
    \/ \E u \in Principals, form \in ToolForms, env \in Envs : create_new_tools(u, form, env)
    \/ \E u \in Principals, id \in RequestIds : get_tools_by_id(u, id)
    \/ \E u \in Principals, id \in RequestIds, form \in ToolForms, env \in Envs :
          update_tools_by_id(u, id, form, env)
    \/ \E u \in Principals, id \in RequestIds, env \in Envs : delete_tools_by_id(u, id, env)
    \/ \E u \in Principals, id \in RequestIds : get_tools_valves_by_id(u, id)
    \/ \E u \in Principals, id \in RequestIds, env \in Envs : get_tools_valves_spec_by_id(u, id, env)
    \/ \E u \in Principals, form \in ValveForms, env \in Envs :
          update_tools_valves_by_id(u, T, form, env)
    \/ Tick

Spec == Init /\ [][Next]_vars

----------------------------------------------------------------------------
(* SpecValves: configuration of a system tool.  Two users write and read   *)
(* the valves of system tool w; Bob may also create a tool of his own      *)
(* under the id that Alice's personal copy of w gets.                      *)

ValveUsers == {Alice, Bob}
CollidingForm == Form(PersonalCopyId(W, Alice.id), SrcOk, NULL)
ValveRequestIds == {W, PersonalCopyId(W, Alice.id)}

InitValves ==
    /\ RouterInit({SrcLegacy, SrcNoValves}, {NULL})
    /\ CacheIdle

NextValves ==
    \/ \E u \in ValveUsers, env \in Envs : create_new_tools(u, CollidingForm, env)
    \/ \E u \in ValveUsers, id \in ValveRequestIds, env \in Envs : delete_tools_by_id(u, id, env)
    \/ \E u \in ValveUsers, id \in ValveRequestIds : get_tools_valves_by_id(u, id)
    \/ \E u \in ValveUsers, id \in ValveRequestIds, env \in Envs :
          get_tools_valves_spec_by_id(u, id, env)
    \/ \E u \in ValveUsers, id \in ValveRequestIds, form \in ValveForms, env \in Envs :
          update_tools_valves_by_id(u, id, form, env)
    \/ Tick

SpecValves == InitValves /\ [][NextValves]_vars

\* SpecReads: every read endpoint, open to the two users of SpecValves,
\* between their writes; the store may fail under a read, not under a write.
NextReads ==
    \/ \E u \in ValveUsers : create_new_tools(u, CollidingForm, EnvOk)
    \/ \E u \in ValveUsers, id \in ValveRequestIds : delete_tools_by_id(u, id, EnvOk)
    \/ \E u \in ValveUsers, id \in ValveRequestIds, form \in ValveForms :
          update_tools_valves_by_id(u, id, form, EnvOk)
    \/ \E u \in ValveUsers, id \in ValveRequestIds : get_tools_by_id(u, id)
    \/ \E u \in ValveUsers, order \in OrderByUpdatedAtDesc(store, DOMAIN store) :
          get_tools(u, <<>>, order)
    \/ \E u \in ValveUsers, order \in OrderByUpdatedAtDesc(store, DOMAIN store) :
          get_tool_list(u, order)
    \/ \E u \in ValveUsers, id \in ValveRequestIds : get_tools_valves_by_id(u, id)
    \/ \E u \in ValveUsers, id \in ValveRequestIds, env \in Envs :
          get_tools_valves_spec_by_id(u, id, env)
    \/ Tick

SpecReads == InitValves /\ [][NextReads]_vars

----------------------------------------------------------------------------
(* SpecList: the two list endpoints.  Bob creates, updates and deletes a   *)
(* tool of his own under the access controls of ListForms, the             *)
(* administrator may delete the system tool, the clock moves, and every    *)
(* principal lists.                                                        *)

ListForms == {Form(T, SrcOk, NULL), Form(T, SrcOk, PrivateAC), Form(T, SrcOk, GrantAliceAC)}

InitList ==
    /\ RouterInit({SrcNoValves}, {NULL, GrantAliceAC})
    /\ CacheIdle

NextList ==
    \/ \E form \in ListForms : create_new_tools(Bob, form, EnvOk)
    \/ \E form \in ListForms : update_tools_by_id(Bob, T, form, EnvOk)
    \/ \E u \in {Bob, Root}, id \in RequestIds : delete_tools_by_id(u, id, EnvOk)
    \/ \E u \in Principals, servers \in ToolServers,
          order \in OrderByUpdatedAtDesc(store, DOMAIN store) :
          get_tools(u, servers, order)
    \/ \E u \in Principals, order \in OrderByUpdatedAtDesc(store, DOMAIN store) :
          get_tool_list(u, order)
    \/ Tick

SpecList == InitList /\ [][NextList]_vars

----------------------------------------------------------------------------
(* The function module cache: get_function_module_from_cache.  It is a     *)
(* plain function without a lock; its callers run in the request workers,  *)
(* so a call is three steps (look up, load, insert) that interleave with   *)
(* the steps of other calls.                                               *)

F == <<"f">>
Callers == {"c1", "c2"}

FnPipe == <<"class Pipe">>
FnLegacy == <<"from utils", "class Filter">>
FnFault == <<"raise">>
FunctionSources == {FnPipe, FnLegacy, FnFault}

\* The name a local variable has before its first assignment.
Unbound == <<"<unbound>">>

Idle == [pc |-> "idle", load_from_db |-> TRUE, content |-> Unbound,
         module |-> NULL, result |-> NULL]

\* Functions.get_function_by_id / Functions.update_function_by_id
get_function_by_id(fns, id) == IF id \in DOMAIN fns THEN fns[id] ELSE NULL
update_function_by_id(fns, id, updated) ==
    IF id \notin DOMAIN fns
        THEN fns
        ELSE [fns EXCEPT ![id] =
                [k \in DOMAIN fns[id] |->
                    IF k \in DOMAIN updated THEN updated[k] ELSE fns[id][k]]]

\* exec(content, ...) and the Pipe / Filter / Action lookup.
FunctionExecSucceeds(content) ==
    /\ ~ExecRaises(content)
    /\ Tokens(content) \cap {"class Pipe", "class Filter", "class Action"} # {}

\* A call that ends: with a module, or with an exception (result NULL).
Return(c, module) ==
    /\ call' = [call EXCEPT ![c] = [Idle EXCEPT !.result = module]]
    /\ lastHit' = IF module = NULL THEN lastHit ELSE module

\* Lines 171-181 and 184-185: read the row, rewrite the imports, look the
\* id up in the cache.
CacheLookup(c, id, load_from_db) ==
    LET function == get_function_by_id(functions, id)
        content == replace_imports(function.content)
    IN
    /\ call[c].pc = "idle"
    /\ UNCHANGED <<routerVars, FUNCTIONS, FUNCTION_CONTENTS, nextInst>>
    /\ IF load_from_db
       THEN IF function = NULL
            THEN Return(c, NULL) /\ UNCHANGED functions
            ELSE /\ functions' = IF content # function.content
                                 THEN update_function_by_id(functions, id, [content |-> content])
                                 ELSE functions
                 /\ IF /\ id \in DOMAIN FUNCTION_CONTENTS
                       /\ id \in DOMAIN FUNCTIONS
                       /\ FUNCTION_CONTENTS[id] = content
                    THEN Return(c, FUNCTIONS[id])
                    ELSE /\ call' = [call EXCEPT ![c] =
                                       [Idle EXCEPT !.pc = "load", !.content = content]]
                         /\ UNCHANGED lastHit
       ELSE /\ UNCHANGED functions
            /\ IF id \in DOMAIN FUNCTIONS
               THEN Return(c, FUNCTIONS[id])
               ELSE /\ call' = [call EXCEPT ![c] =
                                  [Idle EXCEPT !.pc = "load", !.load_from_db = FALSE]]
                    /\ UNCHANGED lastHit

\* Lines 182 and 186: load_function_module_by_id runs the source.  Without a
\* content argument it reads the row and writes the rewritten source back.
CacheLoad(c, id) ==
    LET given == call[c].load_from_db
        function == get_function_by_id(functions, id)
        content == IF given THEN call[c].content ELSE replace_imports(function.content)
    IN
    /\ call[c].pc = "load"
    /\ nextInst < MaxLoads
    /\ UNCHANGED <<routerVars, FUNCTIONS, FUNCTION_CONTENTS>>
    /\ IF ~given /\ function = NULL
       THEN Return(c, NULL) /\ UNCHANGED <<functions, nextInst>>
       ELSE /\ nextInst' = nextInst + 1
            /\ IF FunctionExecSucceeds(content)
               THEN /\ functions' = IF given THEN functions
                                    ELSE update_function_by_id(functions, id, [content |-> content])
                    /\ call' = [call EXCEPT ![c].pc = "store",
                                            ![c].module = [inst |-> nextInst + 1, src |-> content]]
                    /\ UNCHANGED lastHit
               ELSE /\ functions' = update_function_by_id(
                                      IF given THEN functions
                                      ELSE update_function_by_id(functions, id, [content |-> content]),
                                      id, [is_active |-> FALSE])
                    /\ Return(c, NULL)

\* Lines 188-192: insert the module, then the content it was built from.
\* content is a local of the load_from_db branch only.
CacheStore(c, id) ==
    /\ call[c].pc = "store"
    /\ UNCHANGED <<routerVars, functions, nextInst>>
    /\ FUNCTIONS' = Put(FUNCTIONS, id, call[c].module)
    /\ IF call[c].content = Unbound
       THEN /\ UNCHANGED FUNCTION_CONTENTS
            /\ Return(c, NULL)
       ELSE /\ FUNCTION_CONTENTS' = Put(FUNCTION_CONTENTS, id, call[c].content)
            /\ Return(c, call[c].module)

\* The functions router stores a new source for the function.
UpdateFunctionContent(id, content) ==
    /\ id \in DOMAIN functions
    /\ functions[id].content # content
    /\ functions' = update_function_by_id(functions, id, [content |-> content])
    /\ lastHit' = NULL
    /\ UNCHANGED <<routerVars, FUNCTIONS, FUNCTION_CONTENTS, call, nextInst>>

AllIdle == \A c \in Callers : call[c].pc = "idle"

RouterIdle ==
    /\ store = EmptyDict
    /\ TOOLS = EmptyDict
    /\ now = 0
    /\ resp = [op |-> "none", status |-> 0]
    /\ cfgWriters = {}

InitCache ==
    /\ RouterIdle
    /\ \E content \in {FnPipe, FnLegacy} :
          functions = [i \in {F} |-> [content |-> content, is_active |-> TRUE]]
    /\ FUNCTIONS = EmptyDict
    /\ FUNCTION_CONTENTS = EmptyDict
    /\ call = [c \in Callers |-> Idle]
    /\ nextInst = 0
    /\ lastHit = NULL

\* SpecCache: the callers' steps interleave freely.
NextCache ==
    \/ \E c \in Callers, load_from_db \in BOOLEAN : CacheLookup(c, F, load_from_db)
    \/ \E c \in Callers : CacheLoad(c, F)
    \/ \E c \in Callers : CacheStore(c, F)
    \/ \E content \in FunctionSources : UpdateFunctionContent(F, content)

SpecCache == InitCache /\ [][NextCache]_vars

\* SpecCacheSeq: one call at a time, and the source changes between calls only.
NextCacheSeq ==
    \/ \E load_from_db \in BOOLEAN : AllIdle /\ CacheLookup("c1", F, load_from_db)
    \/ CacheLoad("c1", F)
    \/ CacheStore("c1", F)
    \/ \E content \in FunctionSources : AllIdle /\ UpdateFunctionContent(F, content)

SpecCacheSeq == InitCache /\ [][NextCacheSeq]_vars

----------------------------------------------------------------------------
(* Properties of the configuration of system tools (SpecValves)            *)

IsSystemTool(st, id) == id \in DOMAIN st /\ st[id].user_id = None

\* C1: after a successful valves write of user u on system tool id, u reads
\* back the validated form of what was written, and every other user who
\* never wrote valves for that tool still reads the tool's own valves.
C1_WriteThenRead ==
    [][\A u \in ValveUsers, id \in ValveRequestIds, form \in ValveForms, env \in Envs :
          ( /\ IsSystemTool(store, id)
            /\ resp' = [op |-> "valves_update", status |-> 200]
            /\ update_tools_valves_by_id(u, id, form, env) )
          => /\ ValvesRead(store', u, id) =
                    [status |-> 200, body |-> ValvesDump(DropNone(form))]
             /\ \A u2 \in ValveUsers \ {u} :
                    <<id, u2.id>> \notin cfgWriters'
                    => ValvesRead(store', u2, id) =
                           [status |-> 200, body |-> store[id].valves]
      ]_vars

\* C2 as stated: no valves write on a system tool changes the tool's own
\* valves, source or specs.
C2_BlueprintUntouched ==
    [][\A u \in ValveUsers, id \in ValveRequestIds, form \in ValveForms, env \in Envs :
          ( /\ IsSystemTool(store, id)
            /\ resp'.op = "valves_update"
            /\ update_tools_valves_by_id(u, id, form, env) )
          => /\ id \in DOMAIN store'
             /\ store'[id].valves = store[id].valves
             /\ store'[id].content = store[id].content
             /\ store'[id].specs = store[id].specs
      ]_vars

\* C2 as amended: a step that answers a valves write leaves every system
\* tool's valves and specs (and every field but source and updated_at) as
\* they were; the tool's source is the old one or the old one with its
\* imports rewritten; and the only other row the step touches is the one
\* with the personal-copy id of the requested tool and the writer.
C2_BlueprintKeepsConfiguration ==
    [][resp'.op = "valves_update" =>
          /\ \A b \in DOMAIN store :
                store[b].user_id = None
                => /\ b \in DOMAIN store'
                   /\ \E content \in {store[b].content, replace_imports(store[b].content)},
                         t \in {store[b].updated_at, now} :
                         store'[b] = [store[b] EXCEPT !.content = content,
                                                      !.updated_at = t]
          /\ \E u \in ValveUsers, id \in ValveRequestIds :
                /\ DOMAIN store' \subseteq DOMAIN store \cup {PersonalCopyId(id, u.id)}
                /\ \A i \in DOMAIN store \ {id, PersonalCopyId(id, u.id)} :
                      i \in DOMAIN store' /\ store'[i] = store[i]
      ]_vars

\* C2 witness: a valves write on w succeeded, w went through the loader's
\* import rewrite, and w still has its own valves.
C2_Witness ==
    /\ resp = [op |-> "valves_update", status |-> 200]
    /\ <<W, Alice.id>> \in cfgWriters
    /\ IsSystemTool(store, W)
    /\ store[W].content = replace_imports(SrcLegacy)
    /\ store[W].valves = EmptyDict
    /\ PersonalCopyId(W, Alice.id) \in DOMAIN store
    /\ store[PersonalCopyId(W, Alice.id)].valves = [unit |-> "f"]

\* C3 as stated: a valves write that fails leaves the whole store as it was.
C3_FailedWriteLeavesStore ==
    [][\A u \in ValveUsers, id \in ValveRequestIds, form \in ValveForms, env \in Envs :
          ( /\ resp'.op = "valves_update"
            /\ resp'.status # 200
            /\ update_tools_valves_by_id(u, id, form, env) )
          => store' = store
      ]_vars

\* C3 as amended: a step that answers a valves write with a failure creates
\* no row and changes no row's valves; the one change it can leave is the
\* loader's, on a row whose module was not cached: source with imports
\* rewritten, updated_at refreshed.
C3_FailedWriteKeepsConfigurations ==
    [][(resp'.op = "valves_update" /\ resp'.status # 200) =>
          /\ DOMAIN store' = DOMAIN store
          /\ \A i \in DOMAIN store :
                \/ store'[i] = store[i]
                \/ /\ i \notin DOMAIN TOOLS
                   /\ store'[i] = [store[i] EXCEPT
                                      !.content = replace_imports(store[i].content),
                                      !.updated_at = now]
      ]_vars

\* C3 witness: a valves write on w was refused after w's module was loaded
\* (the module declares Valves, so the form failed validation or the commit
\* failed), and no personal copy exists.
C3_Witness ==
    /\ resp = [op |-> "valves_update", status |-> 400]
    /\ W \in DOMAIN TOOLS
    /\ HasValves(TOOLS[W])
    /\ DOMAIN store = {W}
    /\ store[W].content = replace_imports(SrcLegacy)
    /\ store[W].valves = EmptyDict

----------------------------------------------------------------------------
(* Properties of the function module cache                                 *)

\* C4: at most one compilation of a function is in progress at any time:
\* no two calls are both between their cache miss and their cache insert.
C4_OneCompilationAtATime ==
    Cardinality({c \in Callers : call[c].pc \in {"load", "store"}}) <= 1

\* C5: once a lookup has returned an object and the function's source has
\* not changed since, no later lookup runs the source again, and every later
\* lookup returns that same object.
C5_SecondLookupHits ==
    [][lastHit # NULL =>
          /\ nextInst' = nextInst
          /\ lastHit' # NULL => lastHit' = lastHit
      ]_vars

----------------------------------------------------------------------------
(* Properties of records and access control (Spec)                         *)

\* C6: after every request that was answered 200, the module cached for a
\* tool was built from the tool's current source.
C6_CachedBuiltFromCurrentSource ==
    resp.status = 200 =>
        \A id \in DOMAIN TOOLS \cap DOMAIN store : TOOLS[id].src = store[id].content

\* P is neither the owner of the user tool id, nor an administrator, nor
\* granted write on it.
Outsider(u, id) ==
    /\ id \in DOMAIN store
    /\ store[id].user_id # None
    /\ store[id].user_id # u.id
    /\ u.role # "admin"
    /\ ~has_access(u.id, "write", store[id].access_control)

\* C7: every update, delete and valves write of an outsider on a user tool
\* is answered 401 and leaves the row as it was.
C7_OutsiderWriteDenied ==
    [][\A u \in Principals, id \in RequestIds, env \in Envs :
          ( /\ Outsider(u, id)
            /\ \/ \E form \in ToolForms : update_tools_by_id(u, id, form, env)
               \/ delete_tools_by_id(u, id, env)
               \/ \E form \in ValveForms : update_tools_valves_by_id(u, id, form, env) )
          => /\ resp'.status = 401
             /\ id \in DOMAIN store'
             /\ store'[id] = store[id]
      ]_vars

\* C8: an update of a system tool by a principal who is no administrator
\* and is not granted write is answered 401 and changes nothing; a read of
\* a system tool is answered 200.
C8_BlueprintWriteDenied ==
    [][\A u \in Principals, id \in RequestIds :
          IsSystemTool(store, id)
          => /\ \A form \in ToolForms, env \in Envs :
                   ( /\ u.role # "admin"
                     /\ ~has_access(u.id, "write", store[id].access_control)
                     /\ update_tools_by_id(u, id, form, env) )
                   => resp'.status = 401 /\ store' = store
             /\ get_tools_by_id(u, id) => resp'.status = 200
      ]_vars

\* C9: no delete request of a principal who is no administrator removes a
\* system tool.
C9_BlueprintStays ==
    [][\A u \in Principals, id \in RequestIds, env \in Envs :
          ( /\ IsSystemTool(store, id)
            /\ u.role # "admin"
            /\ delete_tools_by_id(u, id, env) )
          => id \in DOMAIN store'
      ]_vars

\* C10: reading a tool and reading its valves are both answered 200 when
\* the reader owns the tool, or it is a system tool, or its access control
\* grants the reader read.
C10_ReadGranted ==
    [][\A u \in Principals, id \in RequestIds :
          ( /\ id \in DOMAIN store
            /\ \/ store[id].user_id = u.id
               \/ store[id].user_id = None
               \/ has_access(u.id, "read", store[id].access_control) )
          => /\ get_tools_by_id(u, id) => resp'.status = 200
             /\ get_tools_valves_by_id(u, id) => resp'.status = 200
      ]_vars

\* C11: no request of an administrator on an existing tool is answered 401,
\* and an administrator's valves write on an existing tool whose module
\* loads and declares Valves, with a form the Valves accept and the store
\* reachable, is answered 200.
C11_AdminPasses ==
    [][\A id \in RequestIds :
          id \in DOMAIN store
          => /\ get_tools_by_id(Root, id) => resp'.status = 200
             /\ get_tools_valves_by_id(Root, id) => resp'.status = 200
             /\ \A env \in Envs :
                   /\ delete_tools_by_id(Root, id, env) => resp'.status # 401
                   /\ \A form \in ToolForms :
                         update_tools_by_id(Root, id, form, env) => resp'.status # 401
                   /\ \A form \in ValveForms :
                         ( /\ update_tools_valves_by_id(Root, id, form, env)
                           /\ ExecSucceeds(replace_imports(store[id].content))
                           /\ HasValves(Module(replace_imports(store[id].content)))
                           /\ ValvesAccepts(DropNone(form))
                           /\ env = EnvOk )
                         => resp'.status = 200
      ]_vars

----------------------------------------------------------------------------
(* Personal copies (SpecValves)                                            *)

\* The row that is user uid's personal copy of system tool b: it has the
\* personal-copy id, is owned by uid and points back to b.
IsPersonalCopy(st, b, uid) ==
    /\ PersonalCopyId(b, uid) \in DOMAIN st
    /\ st[PersonalCopyId(b, uid)].user_id = uid
    /\ "parent_tool_id" \in DOMAIN st[PersonalCopyId(b, uid)].meta
    /\ st[PersonalCopyId(b, uid)].meta.parent_tool_id = b

ReadOps == {"get", "valves", "valves_spec", "list", "list_writable"}

\* C12: a step that answers a read (tool read, valves read, valves schema,
\* either list) leaves the set of rows as it was, and after every step, if
\* a personal copy of b for user u exists, u has made a successful valves
\* write on b.
C12_ReadsCreateNoCopy ==
    [][/\ resp'.op \in ReadOps => DOMAIN store' = DOMAIN store
       /\ \A b \in ValveRequestIds, u \in ValveUsers :
             IsPersonalCopy(store', b, u.id) => <<b, u.id>> \in cfgWriters'
      ]_vars

\* C12 witness: Alice has read the valves of w while Bob, who wrote them,
\* has a personal copy and Alice has none.
C12_Witness ==
    /\ resp = [op |-> "valves", status |-> 200]
    /\ IsPersonalCopy(store, W, Bob.id)
    /\ PersonalCopyId(W, Alice.id) \notin DOMAIN store
    /\ cfgWriters = {<<W, Bob.id>>}

\* C13: a valves write by the owner of a user tool creates and removes no
\* row and touches no other row; when it is answered 200 the tool's own
\* valves are the validated form, its updated_at is refreshed, its source
\* is the old one or the old one with its imports rewritten, and its other
\* fields are as they were.
C13_OwnerWriteInPlace ==
    [][\A u \in ValveUsers, id \in ValveRequestIds :
          ( /\ resp'.op = "valves_update"
            /\ id \in DOMAIN store
            /\ store[id].user_id = u.id )
          => \A form \in ValveForms, env \in Envs :
                \/ /\ DOMAIN store' = DOMAIN store
                   /\ \A i \in DOMAIN store \ {id} : store'[i] = store[i]
                   /\ resp'.status = 200
                      => \E content \in {store[id].content,
                                         replace_imports(store[id].content)} :
                            store'[id] = [store[id] EXCEPT
                                             !.valves = ValvesDump(DropNone(form)),
                                             !.updated_at = now,
                                             !.content = content]
                \/ ~update_tools_valves_by_id(u, id, form, env)
      ]_vars

\* C13 witness: Bob's valves write on his own tool was answered 200 and the
\* tool holds the written valves; nobody has written valves of a system tool.
C13_Witness ==
    /\ resp = [op |-> "valves_update", status |-> 200]
    /\ cfgWriters = {}
    /\ DOMAIN store = {W, PersonalCopyId(W, Alice.id)}
    /\ store[PersonalCopyId(W, Alice.id)].user_id = Bob.id
    /\ store[PersonalCopyId(W, Alice.id)].valves = [unit |-> "f"]

\* C20: a valves write of user u changes no row owned by another principal.
C20_WriteKeepsOthersRows ==
    [][\A u \in ValveUsers, id \in ValveRequestIds, form \in ValveForms, env \in Envs :
          ( /\ resp'.op = "valves_update"
            /\ update_tools_valves_by_id(u, id, form, env) )
          => \A i \in DOMAIN store :
                (store[i].user_id # None /\ store[i].user_id # u.id)
                => i \in DOMAIN store' /\ store'[i] = store[i]
      ]_vars

----------------------------------------------------------------------------
(* Properties of the list endpoints (SpecList)                             *)

ListOps == {"list", "list_writable"}

\* The ids of the tool rows in a list response, in the order of the list.
RecordIds(body) == SelectSeq([i \in 1..Len(body) |-> body[i].id], LAMBDA id : id \in DOMAIN store)

\* The rows principal u may see: his own, the system tools, and those whose
\* access control grants him read.
VisibleIds(st, u) ==
    {id \in DOMAIN st :
        \/ st[id].user_id = u.id
        \/ st[id].user_id = None
        \/ has_access(u.id, "read", st[id].access_control)}

\* C14: every list request of a principal that is no administrator is
\* answered with a list that holds each row the principal may see exactly
\* once and no other row.
C14_ListExact ==
    [][\A u \in Principals \ {Root}, order \in OrderByUpdatedAtDesc(store, DOMAIN store) :
          ( \/ \E servers \in ToolServers : get_tools(u, servers, order)
            \/ get_tool_list(u, order) )
          => /\ resp'.status = 200
             /\ LET ids == SelectSeq([i \in 1..Len(resp'.body) |-> resp'.body[i].id],
                                     LAMBDA id : id \in DOMAIN store)
                IN  /\ {ids[i] : i \in 1..Len(ids)} = VisibleIds(store, u)
                    /\ Len(ids) = Cardinality(VisibleIds(store, u))
      ]_vars

\* The tool rows of a list body are in descending order of updated_at.
SortedByUpdatedAtDesc(body) ==
    LET ids == RecordIds(body) IN
    \A i, j \in 1..Len(ids) :
        i < j => store[ids[i]].updated_at >= store[ids[j]].updated_at

\* C15 as amended: in every list that is returned, the tool rows are in
\* descending order of updated_at.
C15_ListSorted ==
    (resp.op \in ListOps /\ resp.status = 200) => SortedByUpdatedAtDesc(resp.body)

\* C15 as stated: the same, and rows of equal updated_at keep their
\* relative order from one list to the next while the table is unchanged.
C15_ListSortedTiesFixed ==
    [][( /\ resp.op \in ListOps /\ resp.status = 200
         /\ resp'.op \in ListOps /\ resp'.status = 200
         /\ store' = store )
       => /\ SortedByUpdatedAtDesc(resp'.body)
          /\ LET old == RecordIds(resp.body)
                 new == RecordIds(resp'.body)
             IN  \A i, j \in 1..Len(old), k, l \in 1..Len(new) :
                    ( /\ i < j /\ old[i] = new[k] /\ old[j] = new[l]
                      /\ store[old[i]].updated_at = store[old[j]].updated_at )
                    => k < l
      ]_vars

\* C15 witness: Alice was answered a list of two tools of different
\* updated_at, followed by a tool server.
C15_Witness ==
    /\ resp.op = "list"
    /\ resp.status = 200
    /\ Len(resp.body) = 3
    /\ RecordIds(resp.body) = <<T, W>>
    /\ store[T].updated_at > store[W].updated_at

----------------------------------------------------------------------------
(* Properties of failed loads (Spec)                                       *)

\* C16: a create or update request that is not answered 200 leaves the
\* cache of loaded tool modules as it was.
C16_FailedRequestLeavesCache ==
    [][\A u \in Principals, form \in ToolForms, env \in Envs :
          ( /\ resp'.status # 200
            /\ \/ create_new_tools(u, form, env)
               \/ \E id \in RequestIds : update_tools_by_id(u, id, form, env) )
          => TOOLS' = TOOLS
      ]_vars

----------------------------------------------------------------------------
(* SpecFrontmatter: the frontmatter parser applied once to a source text   *)
(* of at most MaxTextLen characters, or to no text at all.                 *)

RECURSIVE TextsUpTo(_)
TextsUpTo(n) ==
    IF n = 0 THEN {<<>>}
    ELSE TextsUpTo(n - 1) \cup
         {Append(t, ch) : t \in {x \in TextsUpTo(n - 1) : Len(x) = n - 1}, ch \in TextChars}

Texts == TextsUpTo(MaxTextLen)

\* A source whose block declares a description and two requirements; each
\* word is one character of the text.
ExampleText ==
    <<QQQ, NL, "description", ":", " ", "demo", NL,
      "requirements", ":", " ", "foo,bar", NL, QQQ, NL, "class Tools">>

InitFrontmatter ==
    /\ RouterIdle
    /\ functions = EmptyDict
    /\ FUNCTIONS = EmptyDict
    /\ FUNCTION_CONTENTS = EmptyDict
    /\ call \in [content : Texts \cup {NoText, ExampleText}]
    /\ nextInst = 0
    /\ lastHit = NULL

\* One call of extract_frontmatter(content); resp records its outcome.
ExtractFrontmatter ==
    /\ resp.op = "none"
    /\ LET outcome == extract_frontmatter_text(call.content) IN
       resp' = [op |-> "extract_frontmatter", status |-> 0,
                raises |-> outcome.raises, body |-> outcome.map]
    /\ UNCHANGED <<store, TOOLS, now, cfgWriters, cacheVars>>

NextFrontmatter == ExtractFrontmatter

SpecFrontmatter == InitFrontmatter /\ [][NextFrontmatter]_vars

\* The text has no triple-quote delimiter before its first line break.
NoDelimiterOnFirstLine(text) ==
    \A i \in 1..Len(text) : text[i] = QQQ => \E j \in 1..(i - 1) : text[j] = NL

\* C19: for every source text, extract_frontmatter returns a map from keys
\* to values and does not raise; when the first line of the text holds no
\* triple-quote delimiter, the map it returns is empty.
C19_FrontmatterTotal ==
    (resp.op = "extract_frontmatter" /\ call.content \in Texts) =>
        /\ ~resp.raises
        /\ \A k \in DOMAIN resp.body :
              /\ k \in Seq(TextChars \cup {"k"})
              /\ resp.body[k] \in Seq(TextChars)
        /\ NoDelimiterOnFirstLine(call.content) => resp.body = EmptyDict

\* A text with a delimited block that starts after the first line has been
\* parsed, and the map returned is empty.
C19_Witness ==
    /\ resp.op = "extract_frontmatter"
    /\ call.content = <<NL, QQQ, "K", ":", QQQ>>
    /\ ~resp.raises
    /\ resp.body = EmptyDict

----------------------------------------------------------------------------
(* SpecInstall: tools and a function that declare requirements, created    *)
(* and updated while pip works or fails, and the batch installation of     *)
(* the dependencies of everything stored.                                  *)

SrcReq == <<DocReq, "class Tools", "def run">>
SrcReqTwo == <<DocReqTwo, "class Tools", "def run">>
FnReqTwo == <<DocReqTwo, "class Pipe">>

\* joinedload(Tool.user): the user row of the owner; NULL without one.
UserOf(user_id) ==
    IF \E p \in Principals : p.id = user_id
        THEN CHOOSE p \in Principals : p.id = user_id
        ELSE NULL

\* Functions.get_functions(active_only=True)
Functions_get_functions(fns, active_only) ==
    {id \in DOMAIN fns : active_only => fns[id].is_active}

\* The frontmatter the batch reads for one tool: of the source file for a
\* file-based system tool, of the stored source for a tool of an admin,
\* and none for any other tool.
BatchFrontmatter(st, id) ==
    LET tool == st[id] IN
    IF tool.user_id = None /\ StartsWith(id, CustomPrefix)
        THEN LET name == SubSeq(id, Len(CustomPrefix) + 1, Len(id)) IN
             IF name \in DOMAIN ToolFiles
                 THEN extract_frontmatter(ToolFiles[name])
                 ELSE EmptyDict
    ELSE IF UserOf(tool.user_id) # NULL /\ UserOf(tool.user_id).role = "admin"
        THEN extract_frontmatter(replace_imports(tool.content))
        ELSE EmptyDict

\* all_dependencies of install_tool_and_function_dependencies
AllDependencies(st, fns) ==
    UNION {Dependencies(extract_frontmatter(replace_imports(fns[f].content))) :
              f \in Functions_get_functions(fns, TRUE)}
    \cup UNION {Dependencies(BatchFrontmatter(st, id)) : id \in DOMAIN st}

\* install_tool_and_function_dependencies(): pip runs once when a dependency
\* was collected; the except clause around the whole body logs what pip
\* raises, and the call returns None.
install_tool_and_function_dependencies(env) ==
    LET all_dependencies == AllDependencies(store, functions)
        pip_calls == IF all_dependencies # {} THEN 1 ELSE 0
    IN
    /\ resp' = [op |-> "batch_install", status |-> 0,
                pip_calls |-> pip_calls,
                pip_failed |-> pip_calls = 1 /\ ~env.pip,
                raises |-> FALSE,
                body |-> IF pip_calls = 1 THEN all_dependencies ELSE {}]
    /\ UNCHANGED <<store, TOOLS, now, cfgWriters, cacheVars>>

InstallForms == {Form(T, SrcReq, NULL), Form(T, SrcOk, NULL),
                 Form(<<"u">>, SrcReqTwo, NULL)}
InstallEnvs == {EnvOk, EnvPipDown}
InstallIds == {T, <<"u">>}

InitInstall ==
    /\ RouterInit({SrcNoValves}, {NULL})
    /\ \E content \in {FnPipe, FnReqTwo}, is_active \in BOOLEAN :
          functions = [i \in {F} |-> [content |-> content, is_active |-> is_active]]
    /\ FUNCTIONS = EmptyDict
    /\ FUNCTION_CONTENTS = EmptyDict
    /\ call = EmptyDict
    /\ nextInst = 0
    /\ lastHit = NULL

NextInstall ==
    \/ \E u \in {Bob, Root}, form \in InstallForms, env \in InstallEnvs :
          create_new_tools(u, form, env)
    \/ \E u \in {Bob, Root}, id \in InstallIds, form \in InstallForms, env \in InstallEnvs :
          update_tools_by_id(u, id, form, env)
    \/ \E u \in {Root}, id \in InstallIds, env \in InstallEnvs : delete_tools_by_id(u, id, env)
    \/ \E env \in InstallEnvs : install_tool_and_function_dependencies(env)

SpecInstall == InitInstall /\ [][NextInstall]_vars

\* C17: when pip fails during the batch installation, the failure reaches
\* the caller of install_tool_and_function_dependencies.
C17_BatchFailurePropagates ==
    (resp.op = "batch_install" /\ resp.pip_failed) => resp.raises

\* The requirements declared by the tools in the table and by the active
\* functions.
DeclaredRequirements ==
    UNION {Dependencies(extract_frontmatter(store[id].content)) : id \in DOMAIN store}
    \cup UNION {Dependencies(extract_frontmatter(functions[f].content)) :
                   f \in {g \in DOMAIN functions : functions[g].is_active}}

\* C18: one batch installation runs pip at most once, on exactly the
\* requirements declared by every tool in the table, whoever owns it, and
\* by every active function; pip is not run only when nothing is declared.
C18_BatchInstallsUnion ==
    [][resp'.op = "batch_install" /\ resp' # resp =>
          /\ resp'.pip_calls <= 1
          /\ resp'.pip_calls = 1 => resp'.body = DeclaredRequirements
          /\ resp'.pip_calls = 0 => DeclaredRequirements = {}]_vars

----------------------------------------------------------------------------
\* C21: every id with an entry in TOOLS names a row of the tool table.
C21_CachedIdsAreStored == DOMAIN TOOLS \subseteq DOMAIN store


\* C22: a row that a valves write adds is the personal copy of a system
\* tool b for its owner: its id is b_user_<owner>, its name, source and specs
\* are b's, and its meta.manifest holds parent_tool_id = b; and a step that
\* changes a system tool changes the source and specs of none of its copies.
C22_CopyRefersToBlueprint ==
    [][/\ resp'.op = "valves_update" =>
             \A i \in DOMAIN store' \ DOMAIN store :
                \E b \in DOMAIN store :
                   /\ store[b].user_id = None
                   /\ i = PersonalCopyId(b, store'[i].user_id)
                   /\ store'[i].name = store[b].name
                   /\ store'[i].content = store[b].content
                   /\ store'[i].specs = store[b].specs
                   /\ "manifest" \in DOMAIN store'[i].meta
                   /\ "parent_tool_id" \in DOMAIN store'[i].meta.manifest
                   /\ store'[i].meta.manifest.parent_tool_id = b
       /\ \A b \in DOMAIN store \cap DOMAIN store', u \in ValveUsers :
             ( /\ store[b].user_id = None
               /\ store'[b] # store[b]
               /\ IsPersonalCopy(store, b, u.id)
               /\ PersonalCopyId(b, u.id) \in DOMAIN store' )
             => /\ store'[PersonalCopyId(b, u.id)].content = store[PersonalCopyId(b, u.id)].content
                /\ store'[PersonalCopyId(b, u.id)].specs = store[PersonalCopyId(b, u.id)].specs
      ]_vars


\* C23: a read of the valves schema, which loads the tool without a source
\* override, leaves every row whose source has no legacy import exactly as
\* it was, updated_at included; a row whose source it changes holds a source
\* without legacy imports afterwards, so no later load rewrites it again.
C23_LoadWritesOnlyRewrites ==
    [][resp'.op = "valves_spec" =>
          \A id \in DOMAIN store :
             /\ replace_imports(store[id].content) = store[id].content
                => id \in DOMAIN store' /\ store'[id] = store[id]
             /\ (id \in DOMAIN store' /\ store'[id].content # store[id].content)
                => replace_imports(store'[id].content) = store'[id].content
      ]_vars


----------------------------------------------------------------------------
(* SpecImports: replace_imports applied to a source text of at most        *)
(* MaxWords words, and then to its own result.                             *)

RECURSIVE WordTextsUpTo(_)
WordTextsUpTo(n) ==
    IF n = 0 THEN {<<>>}
    ELSE WordTextsUpTo(n - 1) \cup
         {Append(t, w) : t \in {x \in WordTextsUpTo(n - 1) : Len(x) = n - 1},
                         w \in ImportWords}

InitImports ==
    /\ RouterIdle
    /\ functions = EmptyDict
    /\ FUNCTIONS = EmptyDict
    /\ FUNCTION_CONTENTS = EmptyDict
    /\ call \in [content : WordTextsUpTo(MaxWords)]
    /\ nextInst = 0
    /\ lastHit = NULL

\* content = replace_imports(content)
ReplaceImports ==
    /\ resp.op = "none"
    /\ resp' = [op |-> "replace_imports", status |-> 0,
                body |-> replace_imports_text(call.content)]
    /\ UNCHANGED <<store, TOOLS, now, cfgWriters, cacheVars>>

\* replace_imports applied to the text the first call returned.
ReplaceImportsAgain ==
    /\ resp.op = "replace_imports"
    /\ resp' = [op |-> "replace_imports_again", status |-> 0,
                once |-> resp.body,
                body |-> replace_imports_text(resp.body)]
    /\ UNCHANGED <<store, TOOLS, now, cfgWriters, cacheVars>>

NextImports == ReplaceImports \/ ReplaceImportsAgain

SpecImports == InitImports /\ [][NextImports]_vars

\* C24: replace_imports applied to its own result returns that result.
C24_RewriteIdempotent ==
    resp.op = "replace_imports_again" => resp.body = resp.once

\* C24 witness: a text with two legacy imports was rewritten, and the second
\* application returned the rewritten text.
C24_Witness ==
    /\ call.content = <<"from ", "utils", "from ", "config">>
    /\ resp.op = "replace_imports_again"
    /\ resp.once = <<"from ", "open_webui.", "utils", "from ", "open_webui.", "config">>
    /\ resp.body = resp.once


----------------------------------------------------------------------------
(* SpecLoad: load_tool_module_by_id called on its own, with and without a  *)
(* source override, for a stored tool, an id not stored and the id of the  *)
(* file-based tool custom_x, between the requests of SpecInstall.          *)

CustomX == CustomPrefix \o <<"x">>
SrcReqFault == <<DocReq, "raise">>
LoadIds == {W, T, CustomX}
LoadContents == {None, SrcOk, SrcReq, SrcReqTwo, SrcFault, SrcReqFault}
LoadEnvs == {EnvOk, EnvPipDown, EnvDbDown}

\* One call of load_tool_module_by_id(tool_id, content); resp records what
\* it was called with and what it ran.
LoadToolModule(tool_id, content, env) ==
    LET loaded == load_tool_module_by_id(store, tool_id, content, now, env) IN
    /\ store' = loaded.store
    /\ resp' = [op |-> "load", status |-> IF loaded.ok THEN 200 ELSE 500,
                id |-> tool_id,
                override |-> content,
                pip |-> env.pip,
                body |-> loaded.events]
    /\ UNCHANGED <<TOOLS, now, cfgWriters, cacheVars>>

NextLoad ==
    \/ \E tool_id \in LoadIds, content \in LoadContents, env \in LoadEnvs :
          LoadToolModule(tool_id, content, env)
    \/ \E form \in InstallForms, env \in InstallEnvs : create_new_tools(Bob, form, env)
    \/ \E id \in InstallIds, env \in InstallEnvs : delete_tools_by_id(Root, id, env)

SpecLoad == InitInstall /\ [][NextLoad]_vars

\* The positions of event e among the events a load recorded.
EventAt(events, e) == {i \in 1..Len(events) : events[i] = e}
Before(events, e, f) ==
    \A i \in EventAt(events, f) : \E j \in EventAt(events, e) : j < i

\* C25 as stated: every load called with a source override, whatever the
\* tool id, calls the installer, and executes nothing before it has.
C25_InstallBeforeExecEveryId ==
    (resp.op = "load" /\ resp.override # None) =>
        /\ EventAt(resp.body, "install") # {}
        /\ Before(resp.body, "install", "exec")
        /\ Before(resp.body, "install", "exec_file")

\* C25: a load called with a source override executes the override only
\* after it has called the installer and, when the override declares
\* requirements, after pip ran on them without failing.  For an id that does
\* not start with custom_ the installer is the first thing called; for an id
\* that does, the override is neither installed nor executed.
C25_InstallBeforeExec ==
    (resp.op = "load" /\ resp.override # None) =>
        /\ Before(resp.body, "install", "exec")
        /\ "requirements" \in DOMAIN extract_frontmatter(resp.override)
           => /\ Before(resp.body, "pip", "exec")
              /\ Before(resp.body, "install", "pip")
              /\ EventAt(resp.body, "exec") # {} => resp.pip
        /\ IF StartsWith(resp.id, CustomPrefix)
              THEN EventAt(resp.body, "install") = {} /\ EventAt(resp.body, "exec") = {}
              ELSE Len(resp.body) > 0 /\ resp.body[1] = "install"

\* C25 witness: an override that declares requirements was loaded under an
\* id of the table: installer, pip, then the source.
C25_Witness ==
    /\ resp.op = "load"
    /\ resp.id = T
    /\ resp.override = SrcReq
    /\ resp.body = <<"install", "pip", "exec">>
    /\ resp.status = 200


----------------------------------------------------------------------------
(* SpecBlueprint: update requests of every principal on the system tool w  *)
(* and on Bob's tool t, after the schema of either was read or not.        *)

BlueprintForms == {Form(T, SrcOk, PrivateAC), Form(T, SrcLegacy, NULL)}

InitBlueprint ==
    /\ RouterInit({SrcNoValves, SrcLegacy}, {NULL, GrantAliceAC})
    /\ CacheIdle

NextBlueprint ==
    \/ \E u \in Principals, id \in RequestIds, form \in BlueprintForms, env \in Envs :
          update_tools_by_id(u, id, form, env)
    \/ \E form \in BlueprintForms : create_new_tools(Bob, form, EnvOk)
    \/ \E id \in RequestIds : get_tools_valves_spec_by_id(Root, id, EnvOk)
    \/ Tick

SpecBlueprint == InitBlueprint /\ [][NextBlueprint]_vars

\* C26: an update request on a system tool leaves its source, specs, valves,
\* access control and NULL owner as they were, and leaves TOOLS as it was:
\* the source of the request is neither executed nor cached.
C26_BlueprintDefinitionKept ==
    [][\A u \in Principals, id \in RequestIds :
          ( /\ resp'.op = "update"
            /\ id \in DOMAIN store
            /\ store[id].user_id = None )
          => \A form \in BlueprintForms, env \in Envs :
                \/ /\ id \in DOMAIN store'
                   /\ store'[id].content = store[id].content
                   /\ store'[id].specs = store[id].specs
                   /\ store'[id].valves = store[id].valves
                   /\ store'[id].access_control = store[id].access_control
                   /\ store'[id].user_id = None
                   /\ store'[id].created_at = store[id].created_at
                   /\ TOOLS' = TOOLS
                \/ ~update_tools_by_id(u, id, form, env)
      ]_vars

\* C26 witness: an update request on the system tool has been answered
\* while Bob's tool exists; w still holds its source and is not cached.
C26_Witness ==
    /\ resp.op = "update"
    /\ resp.status = 400
    /\ DOMAIN store = {W, T}
    /\ store[W].user_id = None
    /\ store[W].name = "w0"
    /\ W \notin DOMAIN TOOLS


\* SpecFields: the operations that write to an existing row.  Bob creates
\* tool t; Bob and the administrator update it, the two users write valves
\* of w and t, the schema read loads them, and the clock moves.
InitFields ==
    /\ RouterInit({SrcLegacy}, {NULL})
    /\ CacheIdle

NextFields ==
    \/ create_new_tools(Bob, Form(T, SrcOk, NULL), EnvOk)
    \/ \E u \in {Bob, Root}, id \in RequestIds, form \in BlueprintForms, env \in Envs :
          update_tools_by_id(u, id, form, env)
    \/ \E u \in ValveUsers, id \in RequestIds, env \in Envs :
          update_tools_valves_by_id(u, id, [unit |-> "f"], env)
    \/ \E id \in RequestIds : get_tools_valves_spec_by_id(Root, id, EnvOk)
    \/ Tick

SpecFields == InitFields /\ [][NextFields]_vars

\* C27: no update, valves write or load removes a row or changes its owner
\* or its created_at, and none moves its updated_at backwards.
C27_IdentityFieldsKept ==
    [][\A id \in DOMAIN store :
          /\ id \in DOMAIN store'
          /\ store'[id].user_id = store[id].user_id
          /\ store'[id].created_at = store[id].created_at
          /\ store'[id].updated_at >= store[id].updated_at
      ]_vars

\* C27 witness: Bob's tool was created at time 0 and updated at time 1.
C27_Witness ==
    /\ resp = [op |-> "update", status |-> 200]
    /\ T \in DOMAIN store
    /\ store[T].user_id = Bob.id
    /\ store[T].created_at = 0
    /\ store[T].updated_at = 1


----------------------------------------------------------------------------
(* SpecWorkers: two worker processes over one tool table.  A handler has   *)
(* no await between its first read and its last write, so within a worker  *)
(* a request is one step; the two workers interleave at their accesses to  *)
(* the table.  The first worker (registry TOOLS) handles a create in one   *)
(* step; the second (registry call.TOOLS) is seen between its test of the  *)
(* id and its load and insert.                                             *)

WorkerForms == {Form(T, SrcOk, NULL), Form(<<"T">>, SrcLegacy, NULL)}

InitWorkers ==
    /\ RouterInit({SrcNoValves}, {NULL})
    /\ functions = EmptyDict
    /\ FUNCTIONS = EmptyDict
    /\ FUNCTION_CONTENTS = EmptyDict
    /\ call = [pc |-> "idle", user |-> NULL, form |-> NULL, TOOLS |-> EmptyDict]
    /\ nextInst = 0
    /\ lastHit = NULL

\* create_new_tools in the second worker, up to the test of the id.
PeerCreateBegin(u, form) ==
    LET id == Lower(form.id) IN
    /\ call.pc = "idle"
    /\ UNCHANGED <<store, TOOLS, now, cfgWriters,
                   functions, FUNCTIONS, FUNCTION_CONTENTS, nextInst, lastHit>>
    /\ IF u.role # "admin" /\ ~has_permission(u.id)
       THEN Respond("peer_create", 401) /\ UNCHANGED call
       ELSE IF ~IsIdentifier(form.id)
       THEN Respond("peer_create", 400) /\ UNCHANGED call
       ELSE IF get_tool_by_id(store, id) # NULL
       THEN Respond("peer_create", 400) /\ UNCHANGED call
       ELSE /\ call' = [call EXCEPT !.pc = "checked", !.user = u, !.form = form]
            /\ UNCHANGED resp

\* create_new_tools in the second worker, from the try block on.  An INSERT
\* of an id the table already holds violates the primary key:
\* insert_new_tool catches the exception and returns None.
PeerCreateEnd(env) ==
    LET form == call.form
        id == Lower(form.id)
        content == replace_imports(form.content)
        loaded == load_tool_module_by_id(store, id, content, now, env)
        dumped == [form EXCEPT !.id = id, !.content = content,
                               !.meta = [form.meta EXCEPT !.manifest = loaded.frontmatter]]
    IN
    /\ call.pc = "checked"
    /\ UNCHANGED <<TOOLS, now, cfgWriters,
                   functions, FUNCTIONS, FUNCTION_CONTENTS, nextInst, lastHit>>
    /\ IF ~loaded.ok
       THEN /\ Respond("peer_create", 400)
            /\ call' = [call EXCEPT !.pc = "idle", !.user = NULL, !.form = NULL]
            /\ UNCHANGED store
       ELSE /\ call' = [call EXCEPT !.pc = "idle", !.user = NULL, !.form = NULL,
                                    !.TOOLS = Put(call.TOOLS, id, loaded.module)]
            /\ IF env.db /\ id \notin DOMAIN store
               THEN /\ store' = insert_new_tool(store, call.user.id, dumped, id,
                                                get_tool_specs(loaded.module), now)
                    /\ Respond("peer_create", 200)
               ELSE /\ UNCHANGED store
                    /\ Respond("peer_create", 400)

NextWorkers ==
    \/ \E form \in WorkerForms, env \in Envs : create_new_tools(Bob, form, env)
    \/ \E u \in {Alice, Bob}, form \in WorkerForms : PeerCreateBegin(u, form)
    \/ \E env \in Envs : PeerCreateEnd(env)
    \/ Tick

SpecWorkers == InitWorkers /\ [][NextWorkers]_vars

\* C28: whatever the order of two create requests for one id, the module
\* either worker caches under an id of the table was built from the source
\* the table holds under that id.
C28_CachedFromStoredSource ==
    \A id \in DOMAIN store :
        /\ id \in DOMAIN TOOLS => TOOLS[id].src = store[id].content
        /\ id \in DOMAIN call.TOOLS => call.TOOLS[id].src = store[id].content


----------------------------------------------------------------------------
\* C29: every id with a module in FUNCTIONS has a source snapshot in
\* FUNCTION_CONTENTS, not empty, and it is the source the module was built
\* from.
C29_SnapshotMatchesObject ==
    \A id \in DOMAIN FUNCTIONS :
        /\ id \in DOMAIN FUNCTION_CONTENTS
        /\ FUNCTION_CONTENTS[id] # <<>>
        /\ FUNCTION_CONTENTS[id] = FUNCTIONS[id].src


----------------------------------------------------------------------------
\* The text starts with a triple-quoted block: its first character is the
\* delimiter and a second delimiter closes the block.
StartsWithBlock(text) ==
    /\ text # NoText
    /\ Len(text) >= 2
    /\ text[1] = QQQ
    /\ \E i \in 2..Len(text) : text[i] = QQQ

\* The lines of that block.
BlockLines(text) ==
    LET close == CHOOSE i \in 2..Len(text) :
                    text[i] = QQQ /\ \A j \in 2..(i - 1) : text[j] # QQQ
    IN  Split(Strip(SubSeq(text, 2, close - 1)), NL)

\* C30: for a source that starts with a triple-quoted block,
\* extract_frontmatter returns one entry per key of the lines of the block
\* that hold a colon and nothing else: the key is the text before the first
\* colon, stripped and lower-cased, its value the stripped text after the
\* first colon of the last such line with that key.  For the block
\* description: demo / requirements: foo,bar it returns exactly these two.
C30_OneEntryPerColonLine ==
    (resp.op = "extract_frontmatter" /\ StartsWithBlock(call.content)) =>
        LET lines == BlockLines(call.content)
            colon == {i \in 1..Len(lines) : \E p \in 1..Len(lines[i]) : lines[i][p] = ":"}
        IN  /\ ~resp.raises
            /\ DOMAIN resp.body = {LineKey(lines[i]) : i \in colon}
            /\ \A i \in colon :
                  (\A j \in colon : j > i => LineKey(lines[j]) # LineKey(lines[i]))
                  => resp.body[LineKey(lines[i])] = LineValue(lines[i])
            /\ call.content = ExampleText
               => resp.body = [k \in {<<"description">>, <<"requirements">>} |->
                                 IF k = <<"description">> THEN <<"demo">> ELSE <<"foo,bar">>]

\* C30 witness: the example source has been parsed into its two entries.
C30_Witness ==
    /\ resp.op = "extract_frontmatter"
    /\ call.content = ExampleText
    /\ DOMAIN resp.body = {<<"description">>, <<"requirements">>}
    /\ resp.body[<<"requirements">>] = <<"foo,bar">>
====
